---------------------------- MODULE Spec2Model ----------------------------
(***************************************************************************)
(* A model of server/converter_engine/image_converter.py: the class        *)
(* ImageConverter, its pre- and postprocessing of images and the           *)
(* optimisation loop of run_style_transfer.                                *)
(*                                                                         *)
(* Numbers.  Image tensors are float32.  The model keeps every float32     *)
(* value as an integer count of U = 2^-17, the float32 spacing of the      *)
(* three channel means (64 <= mean < 128), and rounds the result of each   *)
(* float32 operation to the float32 grid (F32): exact below 128, to        *)
(* multiples of 2^-16 from 128 to 256, and so on, ties to even.  Values    *)
(* finer than 2^-17 are not represented.  uint8 values are plain 0..255.   *)
(*                                                                         *)
(* Tensors are records [kind, dtype, shape, data]; data is the row-major   *)
(* sequence of the tensor's last-axis vectors.  A raised exception and     *)
(* None are records of the same form, told apart by kind.                  *)
(*                                                                         *)
(* Python 3 is assumed: self.iteration / 10 at line 199 is true division.  *)
(* The optimizer's update is any of a set of moves of the candidate; the   *)
(* network is a small fixed function of frozen weights, layer and pixel.   *)
(***************************************************************************)
EXTENDS Integers, Sequences, FiniteSets, TLC

\* ------------------------------------------------------------- bounds
\* Largest configured iteration count explored.
MaxIter == 3
\* Largest tensor rank handed to _deprocess_img by the postprocessing harness.
MaxRank == 5

\* ------------------------------------------------------------- numbers
\* One unit of the fixed-point representation is 2^-17.
U == 2 ^ 17

Abs(x) == IF x < 0 THEN -x ELSE x

\* float32 spacing (in units) at magnitude a: 24 significant bits.
RECURSIVE Ulp(_)
Ulp(a) == IF a < 2 ^ 24 THEN 1 ELSE 2 * Ulp(a \div 2)

\* Round x to the nearest multiple of u, ties to the even multiple.
RoundHalfEven(x, u) ==
    LET q == x \div u
        r == x % u
    IN  IF 2 * r < u THEN q * u
        ELSE IF 2 * r > u THEN (q + 1) * u
        ELSE IF q % 2 = 0 THEN q * u ELSE (q + 1) * u

\* The float32 nearest to x.
F32(x) == RoundHalfEven(x, Ulp(Abs(x)))

\* float32(103.939), float32(116.779), float32(123.68) in units of 2^-17.
Mean0 == 13623493
Mean1 == 15306457
Mean2 == 16210985
norm_means == <<Mean0, Mean1, Mean2>>

\* float32(255 - 103.939), float32(255 - 116.779), float32(255 - 123.68): the
\* float64 array 255 - norm_means as tf.clip_by_value converts it to float32.
MaxVal0 == 19799868
MaxVal1 == 18116902
MaxVal2 == 17212376
min_vals == <<-Mean0, -Mean1, -Mean2>>
max_vals == <<MaxVal0, MaxVal1, MaxVal2>>

Clip(x, lo, hi) == IF x < lo THEN lo ELSE IF x > hi THEN hi ELSE x

\* ------------------------------------------------------------- tensors
Tensor(dtype, shape, data) ==
    [kind |-> "ndarray", dtype |-> dtype, shape |-> shape, data |-> data]
None == [kind |-> "None", dtype |-> "", shape |-> <<>>, data |-> <<>>]
Raised(exc) == [kind |-> exc, dtype |-> "", shape |-> <<>>, data |-> <<>>]

Rank(t) == Len(t.shape)
Reverse(s) == [k \in 1..Len(s) |-> s[Len(s) + 1 - k]]
MapVec(t, Op(_)) == [k \in 1..Len(t.data) |-> Op(t.data[k])]

\* kp_image.img_to_array: uint8 [H, W, 3] to float32 [H, W, 3].
ImgToArray(img) ==
    Tensor("float32", img.shape,
           MapVec(img, LAMBDA v : [c \in 1..Len(v) |-> v[c] * U]))

\* np.expand_dims(img, axis=0)
ExpandDims(t) == [t EXCEPT !.shape = <<1>> \o t.shape]

\* tf.keras.applications.vgg19.preprocess_input on a float32 array: the
\* channels are reversed (RGB to BGR), then each channel mean is subtracted.
PreprocessInput(t) ==
    [t EXCEPT !.data =
        MapVec(t, LAMBDA v :
            LET r == Reverse(v)
            IN  [c \in 1..Len(r) |-> F32(r[c] - norm_means[c])])]

\* _load_and_process_img after Image.open: the model's images have their
\* longer side equal to max_dim, so scale = 1 and resize keeps the pixels.
ProcessImg(img) == PreprocessInput(ExpandDims(ImgToArray(img)))

\* The rank test of _deprocess_img (the assert and the if behind it).
\* (RankOkLoose: the faulty test len(x.shape) >= 3, which C7 must reject.)
RankOkLoose(shape) == Len(shape) >= 3
RankOk(shape) == Len(shape) = 3

\* x[:, :, 0] += 103.939; x[:, :, 1] += 116.779; x[:, :, 2] += 123.68
\* (AddMeansSkewed: the fault of adding the first mean to every channel,
\* which C9 must reject.)
AddMeansSkewed(v) ==
    [c \in 1..Len(v) |-> IF c <= 3 THEN F32(v[c] + norm_means[1]) ELSE v[c]]
AddMeans(v) ==
    [c \in 1..Len(v) |-> IF c <= 3 THEN F32(v[c] + norm_means[c]) ELSE v[c]]

\* np.clip(x, 0, 255).astype('uint8'): the cast truncates.
ToUint8(v) == [c \in 1..Len(v) |-> Clip(v[c], 0, 255 * U) \div U]

\* _deprocess_img.  ret is what the call returns or raises, arg is the
\* caller's array after the call: the function works on x = copy, so arg is
\* the argument as it was.  debug is Python's __debug__ (False under -O,
\* which strips the assert and leaves the ValueError).
DeprocessImg(processed_img, debug) ==
    LET x == processed_img
        s == IF Rank(x) = 4 THEN Tail(x.shape) ELSE x.shape
        ret ==
            IF Rank(x) = 4 /\ x.shape[1] # 1 THEN Raised("ValueError")
            ELSE IF ~RankOk(s)
                 THEN IF debug THEN Raised("AssertionError")
                      ELSE Raised("ValueError")
            ELSE IF s[Len(s)] < 3 THEN Raised("IndexError")
            ELSE Tensor("uint8", s,
                        MapVec(x, LAMBDA v : ToUint8(Reverse(AddMeans(v)))))
    IN  [ret |-> ret, arg |-> processed_img]


\* ------------------------------------------------------------- the network
style_layers ==
    <<"block1_conv1", "block2_conv1", "block3_conv1", "block4_conv1",
      "block5_conv1">>
content_layers == <<"block5_conv2">>
num_style_layers == Len(style_layers)
num_content_layers == Len(content_layers)

\* _get_model: the layers whose outputs the model returns, in order.
\* (ModelOutputLayersContentFirst: the fault content_outputs + style_outputs,
\* which C5 must reject.)
ModelOutputLayersContentFirst == content_layers \o style_layers
ModelOutputLayers == style_layers \o content_layers

\* The frozen weight sets explored (the pretrained weights are data from
\* outside the repository; a run loads one set and never changes it).
Weights == {1, 2}

\* The named layers in the order VGG19 computes them, and a layer's place.
VggLayers ==
    <<"block1_conv1", "block2_conv1", "block3_conv1", "block4_conv1",
      "block5_conv1", "block5_conv2">>
LayerDepth(name) == CHOOSE d \in 1..Len(VggLayers) : VggLayers[d] = name

Relu(x) == IF x > 0 THEN x ELSE 0

\* Stand-in for the activation of one layer at one spatial location: a fixed
\* function of the weights, the layer and the pixel, ending in a ReLU as
\* every VGG19 convolution does; two channels per layer.
Activation(name, w, px) ==
    LET d == LayerDepth(name)
        q == [c \in 1..3 |-> px[c] \div (32 * U)]
    IN  <<Relu(w * q[1] + q[2] + (d % 3)), Relu(q[3] - q[1] + (d \div 2))>>

\* One output of model(image): the feature tensor [1, H, W, C] of a layer,
\* kept as its batch of one [H*W, C] matrix, tagged with the layer it is of.
LayerOutput(name, w, image) ==
    [layer |-> name,
     batch |-> <<[k \in 1..Len(image.data) |-> Activation(name, w, image.data[k])]>>]

\* model(image): one output per layer of ModelOutputLayers, in that order.
Model(w, image) ==
    [k \in 1..Len(ModelOutputLayers) |-> LayerOutput(ModelOutputLayers[k], w, image)]

\* output[0]: drop the batch dimension.
First(out) == [layer |-> out.layer, rows |-> out.batch[1]]

\* outputs[:num_style_layers] and outputs[num_style_layers:]
StyleSlice(outs) == SubSeq(outs, 1, num_style_layers)
ContentSlice(outs) == SubSeq(outs, num_style_layers + 1, Len(outs))

\* zip(a, b)
Zip(a, b) ==
    LET n == IF Len(a) < Len(b) THEN Len(a) ELSE Len(b)
    IN  [k \in 1..n |-> <<a[k], b[k]>>]

RECURSIVE SumSeq(_)
SumSeq(s) == IF s = <<>> THEN 0 ELSE Head(s) + SumSeq(Tail(s))

\* ------------------------------------------------------------- losses
\* Losses are exact rationals kept as numerators: a mean keeps the sum of
\* its squares, and TotalLoss carries the one common denominator.

\* gram_matrix: a = reshape(input, [-1, channels]); a^T a / n.
gram_matrix(feat) ==
    LET a == feat.rows
        n == Len(a)
        ch == Len(a[1])
    IN  [layer |-> feat.layer,
         gram |-> [p \in 1..ch |-> [q \in 1..ch |->
                    SumSeq([r \in 1..n |-> a[r][p] * a[r][q]]) \div n]]]

\* style_loss: the sum of squares of gram_matrix(base) - gram_target, the
\* mean's numerator over channels^2.
style_loss(base_style, gram_target) ==
    LET g == gram_matrix(base_style).gram
        t == gram_target.gram
    IN  SumSeq([p \in 1..Len(g) |->
            SumSeq([q \in 1..Len(g) |-> (g[p][q] - t[p][q]) * (g[p][q] - t[p][q])])])

\* content_loss: the sum of squares of base - target, the mean's numerator
\* over H*W*channels.
content_loss(base_content, target) ==
    LET b == base_content.rows
        t == target.rows
    IN  SumSeq([r \in 1..Len(b) |->
            SumSeq([c \in 1..Len(b[r]) |-> (b[r][c] - t[r][c]) * (b[r][c] - t[r][c])])])

\* style_weight = 1e-2 and content_weight = 1e3, in hundredths.
StyleWeight == 1
ContentWeight == 100000

\* The pairs compute_loss compares: zip(targets, candidate outputs).
StylePairs(w, image, gram_targets) ==
    Zip(gram_targets, StyleSlice(Model(w, image)))
ContentPairs(w, image, content_targets) ==
    Zip(content_targets, ContentSlice(Model(w, image)))

\* compute_loss: the total loss of a candidate against the targets, as the
\* numerator over 100 * num_style_layers * channels^2 * H*W*channels.
\* style_score = sum of (1/num_style_layers) * style_loss, times style_weight;
\* content_score = sum of (1/num_content_layers) * content_loss, times
\* content_weight; loss = style_score + content_score.
TotalLoss(w, image, gram_targets, content_targets) ==
    LET sp == StylePairs(w, image, gram_targets)
        cp == ContentPairs(w, image, content_targets)
        n == Len(image.data)
        style_score ==
            SumSeq([k \in 1..Len(sp) |-> style_loss(First(sp[k][2]), sp[k][1])])
        content_score ==
            SumSeq([k \in 1..Len(cp) |-> content_loss(First(cp[k][2]), cp[k][1])])
    IN  StyleWeight * style_score * num_content_layers * 2 * n
        + ContentWeight * content_score * num_style_layers * 4

\* float('inf'), and the '<' of line 214 on it.
Inf == -1
\* (LossLessOrEqual: the fault loss <= best_loss, which C2 must reject.)
LossLessOrEqual(a, b) == a # Inf /\ (b = Inf \/ a <= b)
LossLess(a, b) == a # Inf /\ (b = Inf \/ a < b)


\* ------------------------------------------------------------- state
VARIABLES
    pc,                  \* where run_style_transfer is
    content_file,        \* the image file at content_path, None if unreadable
    style_file,          \* the image file at style_path, None if unreadable
    iteration,           \* self.iteration
    debug,               \* __debug__: asserts are executed
    vgg,                 \* the frozen pretrained weights of the model
    opened,              \* the paths given to Image.open so far, in order
    content_image,       \* run_gradient_descent's content_image
    style_image,         \* run_gradient_descent's style_image
    gram_style_features, \* cfg['gram_style_features']
    content_features,    \* cfg['content_features']
    init_image,          \* the candidate image variable
    opt_steps,           \* updates the optimizer has applied
    best_loss,
    best_img,
    loss,                \* the loop's loss, Inf before the first iteration
    i,                   \* the next value of range(self.iteration)
    cur_iter,            \* self.cur_iter
    imgs,                \* the progress snapshots
    ret,                 \* the returned value, None until the return
    err,                 \* the exception raised, "" if none
    visited,             \* history: the values i has taken in the loop body
    hist,                \* history: the candidate before each iteration and now
    best_iter,           \* history: the iteration that last wrote best_img
    raw,                 \* harness: the pixel array preprocessed
    t_arg,               \* harness: the array handed to _deprocess_img
    t_ret,               \* harness: what _deprocess_img returned or raised
    hpc                  \* harness: where the harness is

runVars ==
    <<pc, content_file, style_file, iteration, debug, vgg, opened,
      content_image, style_image, gram_style_features, content_features,
      init_image, opt_steps, best_loss, best_img, loss, i, cur_iter, imgs,
      ret, err, visited, hist, best_iter>>
harnessVars == <<raw, t_arg, t_ret, hpc>>
vars == <<runVars, harnessVars>>

\* A uint8 image of one pixel, [1, 1, 3], in RGB.
Pixel(r, g, b) == Tensor("uint8", <<1, 1, 3>>, << <<r, g, b>> >>)

ContentImages == {Pixel(200, 30, 90), Pixel(10, 250, 128)}
StyleImages == {Pixel(0, 255, 60), Pixel(120, 120, 250)}

\* What one optimizer update may add to the three channels of every pixel:
\* nothing, a small move, and moves past either end of the valid range.
Steps ==
    {<<0, 0, 0>>, <<40 * U, -40 * U + 1, 33 * U>>,
     <<-300 * U, 300 * U, -300 * U>>, <<300 * U, -300 * U, 300 * U>>}

\* Image.open(img_path): the image, or None when it raises.
\* (ImageOpenOrBlank: the fault of going on with a blank image, which C6 must
\* reject.)
ImageOpenOrBlank(file) == IF file = None THEN Pixel(0, 0, 0) ELSE file
ImageOpen(file) == file

\* for i in range(self.iteration): is there a next i
\* (RangeHasNextShort stops one iteration early and RangeHasNextAtLeastOnce
\* runs the body before testing: faults C1 and C8 must reject.)
RangeHasNextShort(idx, n) == idx < n - 1
RangeHasNextAtLeastOnce(idx, n) == idx <= n /\ (idx = 0 \/ idx < n)
RangeHasNext(idx, n) == idx < n

\* opt.apply_gradients([(grads, init_image)]): the float32 variable moves by
\* the update the optimizer computed.
ApplyGradients(image, step) ==
    [image EXCEPT !.data =
        MapVec(image, LAMBDA v : [c \in 1..Len(v) |-> F32(v[c] + step[c])])]

\* tf.clip_by_value(init_image, min_vals, max_vals)
\* (ClipToPixelRange: the fault of clipping to [0, 255], which C3 must reject.)
ClipToPixelRange(image) ==
    [image EXCEPT !.data =
        MapVec(image, LAMBDA v : [c \in 1..Len(v) |-> Clip(v[c], 0, 255 * U)])]
ClipByValue(image) ==
    [image EXCEPT !.data =
        MapVec(image, LAMBDA v :
            [c \in 1..Len(v) |-> Clip(v[c], min_vals[c], max_vals[c])])]

\* The candidate compute_grads evaluates, given the candidate before the
\* iteration's update and after it: compute_grads runs before apply_gradients.
\* (EvaluatedCandidateAfter: the fault of evaluating the loss after the
\* update, which C10 must reject.)
EvaluatedCandidateAfter(before, after) == after
EvaluatedCandidate(before, after) == before

\* i % display_interval == 0 with display_interval = self.iteration / 10 in
\* float64, for n > 0: exact only when n / 10 is a float64 (n a multiple of
\* 5); otherwise the remainder is 0 at i = 0 alone (checked for n < 200).
SnapshotDue(idx, n) == idx = 0 \/ (n % 5 = 0 /\ (10 * idx) % n = 0)

\* What the loop body leaves alone: the targets in cfg and the weights.
\* (CfgRecomputed: the fault of recomputing the targets from the candidate,
\* which C4 must reject.)
CfgRecomputed ==
    /\ gram_style_features' =
         [k \in 1..num_style_layers |->
             gram_matrix(First(StyleSlice(Model(vgg, init_image))[k]))]
    /\ content_features' =
         [k \in 1..num_content_layers |->
             First(ContentSlice(Model(vgg, init_image))[k])]
    /\ UNCHANGED <<vgg, content_image, style_image>>
CfgFrame ==
    UNCHANGED <<gram_style_features, content_features, vgg, content_image,
                style_image>>

\* ------------------------------------------------------------- the run
RunInit ==
    /\ pc = "start"
    /\ content_file \in ContentImages \cup {None}
    /\ style_file \in StyleImages \cup {None}
    /\ iteration \in 0..MaxIter
    /\ debug \in BOOLEAN
    /\ vgg \in Weights
    /\ opened = <<>>
    /\ content_image = None /\ style_image = None
    /\ gram_style_features = <<>> /\ content_features = <<>>
    /\ init_image = None
    /\ opt_steps = 0
    /\ best_loss = Inf /\ best_img = None /\ loss = Inf
    /\ i = 0 /\ cur_iter = 0
    /\ imgs = <<>>
    /\ ret = None /\ err = ""
    /\ visited = <<>> /\ hist = <<>> /\ best_iter = -1

HarnessIdle == raw = None /\ t_arg = None /\ t_ret = None /\ hpc = "idle"

\* model = self._get_model(); every layer is made untrainable.
GetModel ==
    /\ pc = "start"
    /\ pc' = "load_content"
    /\ UNCHANGED <<content_file, style_file, iteration, debug, vgg, opened,
                   content_image, style_image, gram_style_features,
                   content_features, init_image, opt_steps, best_loss,
                   best_img, loss, i, cur_iter, imgs, ret, err, visited, hist,
                   best_iter, harnessVars>>

\* run_gradient_descent: content_image = self._load_and_process_img(content_path)
LoadContent ==
    /\ pc = "load_content"
    /\ opened' = Append(opened, "content")
    /\ LET img == ImageOpen(content_file)
       IN  IF img = None
           THEN pc' = "raised" /\ err' = "LoadError" /\ UNCHANGED content_image
           ELSE pc' = "load_style" /\ content_image' = ProcessImg(img)
                /\ UNCHANGED err
    /\ UNCHANGED <<content_file, style_file, iteration, debug, vgg,
                   style_image, gram_style_features, content_features,
                   init_image, opt_steps, best_loss, best_img, loss, i,
                   cur_iter, imgs, ret, visited, hist, best_iter, harnessVars>>

\* run_gradient_descent: style_image = self._load_and_process_img(style_path)
LoadStyle ==
    /\ pc = "load_style"
    /\ opened' = Append(opened, "style")
    /\ LET img == ImageOpen(style_file)
       IN  IF img = None
           THEN pc' = "raised" /\ err' = "LoadError" /\ UNCHANGED style_image
           ELSE pc' = "features" /\ style_image' = ProcessImg(img)
                /\ UNCHANGED err
    /\ UNCHANGED <<content_file, style_file, iteration, debug, vgg,
                   content_image, gram_style_features, content_features,
                   init_image, opt_steps, best_loss, best_img, loss, i,
                   cur_iter, imgs, ret, visited, hist, best_iter, harnessVars>>

\* run_gradient_descent's forward passes and slices, and the Gram matrices
\* of the style features.
ComputeTargets ==
    /\ pc = "features"
    /\ LET style_outputs == Model(vgg, style_image)
           content_outputs == Model(vgg, content_image)
           style_features ==
               [k \in 1..Len(StyleSlice(style_outputs)) |->
                   First(StyleSlice(style_outputs)[k])]
       IN  /\ content_features' =
                [k \in 1..Len(ContentSlice(content_outputs)) |->
                    First(ContentSlice(content_outputs)[k])]
           /\ gram_style_features' =
                [k \in 1..Len(style_features) |-> gram_matrix(style_features[k])]
    /\ pc' = "init_image"
    /\ UNCHANGED <<content_file, style_file, iteration, debug, vgg, opened,
                   content_image, style_image, init_image, opt_steps,
                   best_loss, best_img, loss, i, cur_iter, imgs, ret, err,
                   visited, hist, best_iter, harnessVars>>

\* The initial candidate (the content image, loaded again), the optimizer
\* and the best result so far.
InitImage ==
    /\ pc = "init_image"
    /\ opened' = Append(opened, "content")
    /\ LET img == ImageOpen(content_file)
       IN  IF img = None
           THEN pc' = "raised" /\ err' = "LoadError"
                /\ UNCHANGED <<init_image, hist>>
           ELSE pc' = "loop" /\ init_image' = ProcessImg(img)
                /\ hist' = <<ProcessImg(img)>>
                /\ UNCHANGED err
    /\ opt_steps' = 0
    /\ best_loss' = Inf /\ best_img' = None
    /\ imgs' = <<>>
    /\ i' = 0
    /\ UNCHANGED <<content_file, style_file, iteration, debug, vgg,
                   content_image, style_image, gram_style_features,
                   content_features, loss, cur_iter, ret, visited, best_iter,
                   harnessVars>>

\* One pass of the loop body.
Iterate ==
    /\ pc = "loop"
    /\ RangeHasNext(i, iteration)
    /\ cur_iter' = i
    /\ visited' = Append(visited, i)
    /\ \E step \in Steps :
        LET after == ClipByValue(ApplyGradients(init_image, step))
            total_loss ==
                TotalLoss(vgg, EvaluatedCandidate(init_image, after),
                          gram_style_features, content_features)
            improved == LossLess(total_loss, best_loss)
        IN  /\ loss' = total_loss
            /\ init_image' = after
            /\ hist' = Append(hist, after)
            /\ best_loss' = IF improved THEN total_loss ELSE best_loss
            /\ best_img' = IF improved THEN DeprocessImg(after, debug).ret
                           ELSE best_img
            /\ best_iter' = IF improved THEN i ELSE best_iter
            /\ IF iteration = 0
               THEN pc' = "raised" /\ err' = "ZeroDivisionError"
                    /\ UNCHANGED imgs
               ELSE /\ pc' = "loop" /\ UNCHANGED err
                    /\ imgs' = IF SnapshotDue(i, iteration)
                               THEN Append(imgs, DeprocessImg(after, debug).ret)
                               ELSE imgs
    /\ opt_steps' = opt_steps + 1
    /\ i' = i + 1
    /\ CfgFrame
    /\ UNCHANGED <<content_file, style_file, iteration, debug, opened, ret,
                   harnessVars>>

\* return best_img
Return ==
    /\ pc = "loop"
    /\ ~RangeHasNext(i, iteration)
    /\ ret' = best_img
    /\ pc' = "done"
    /\ UNCHANGED <<content_file, style_file, iteration, debug, vgg, opened,
                   content_image, style_image, gram_style_features,
                   content_features, init_image, opt_steps, best_loss,
                   best_img, loss, i, cur_iter, imgs, err, visited, hist,
                   best_iter, harnessVars>>

Init == RunInit /\ HarnessIdle
Next ==
    \/ GetModel
    \/ LoadContent
    \/ LoadStyle
    \/ ComputeTargets
    \/ InitImage
    \/ Iterate
    \/ Return
Spec == Init /\ [][Next]_vars

\* ------------------------------------------------------------- harness
\* Calls of the two image conversions on their own: a pixel array is
\* preprocessed and the result handed to _deprocess_img, or an arbitrary
\* array is handed to _deprocess_img.

\* Pixel arrays: every value 0..255 in every channel, and two-pixel arrays.
RawImages ==
    {Pixel(p, (p + 85) % 256, (p + 170) % 256) : p \in 0..255}
    \cup {Tensor("uint8", <<1, 2, 3>>, << <<0, 128, 255>>, <<231, 232, 1>> >>),
          Tensor("uint8", <<2, 1, 3>>, << <<255, 254, 253>>, <<127, 0, 233>> >>)}

\* Channel values below, inside and above the valid preprocessed range.
Vals == {-200 * U, 0, 77 * U + 5, 300 * U}

\* float32 arrays of every rank 1..MaxRank with one last-axis vector, and
\* arrays whose batch size is not 1 or whose last axis has no third channel.
ArbitraryTensors ==
    {Tensor("float32", [k \in 1..r |-> IF k = r THEN 3 ELSE 1], <<v>>) :
        r \in 1..MaxRank, v \in [1..3 -> Vals]}
    \cup {Tensor("float32", <<2, 1, 1, 3>>, <<v, v>>) : v \in [1..3 -> Vals]}
    \cup {Tensor("float32", <<1, 1, 2>>, <<v>>) : v \in [1..2 -> Vals]}

RunIdle ==
    /\ pc = "idle"
    /\ content_file = None /\ style_file = None
    /\ iteration = 0
    /\ debug \in BOOLEAN
    /\ vgg = 1
    /\ opened = <<>>
    /\ content_image = None /\ style_image = None
    /\ gram_style_features = <<>> /\ content_features = <<>>
    /\ init_image = None
    /\ opt_steps = 0
    /\ best_loss = Inf /\ best_img = None /\ loss = Inf
    /\ i = 0 /\ cur_iter = 0
    /\ imgs = <<>>
    /\ ret = None /\ err = ""
    /\ visited = <<>> /\ hist = <<>> /\ best_iter = -1

HarnessInit ==
    /\ hpc = "start"
    /\ t_ret = None
    /\ \/ raw \in RawImages /\ t_arg = None
       \/ raw = None /\ t_arg \in ArbitraryTensors

\* img_to_array, expand_dims and preprocess_input of _load_and_process_img.
HarnessPreprocess ==
    /\ hpc = "start"
    /\ raw # None
    /\ t_arg' = ProcessImg(raw)
    /\ hpc' = "preprocessed"
    /\ UNCHANGED <<raw, t_ret, runVars>>

\* ImageConverter._deprocess_img(t_arg)
HarnessDeprocess ==
    /\ \/ hpc = "preprocessed"
       \/ hpc = "start" /\ raw = None
    /\ LET e == DeprocessImg(t_arg, debug)
       IN  t_ret' = e.ret /\ t_arg' = e.arg
    /\ hpc' = "deprocessed"
    /\ UNCHANGED <<raw, runVars>>

InitPure == RunIdle /\ HarnessInit
NextPure ==
    \/ HarnessPreprocess
    \/ HarnessDeprocess
SpecPure == InitPure /\ [][NextPure]_vars

\* ------------------------------------------------------------- properties
InLoop == pc \in {"loop", "done"}
UpTo(n) == [k \in 1..n |-> k - 1]
StrictlyLower(a, b) == a # Inf /\ (b = Inf \/ a < b)
InRange(image) ==
    \A k \in 1..Len(image.data) : \A c \in 1..3 :
        /\ image.data[k][c] >= min_vals[c]
        /\ image.data[k][c] <= max_vals[c]
LossOf(image) == TotalLoss(vgg, image, gram_style_features, content_features)

\* C1: a run that does not raise performs exactly self.iteration loop
\* iterations, i taking 0, 1, ..., N-1 in order with one optimizer step
\* each, and then returns; whatever the losses and the candidate are, the
\* loop goes on exactly while i < N.
C1_ExactlyNIterations ==
    /\ pc = "loop" =>
        /\ i <= iteration
        /\ opt_steps = i
        /\ visited = UpTo(i)
        /\ RangeHasNext(i, iteration) <=> (i < iteration)
    /\ pc = "done" =>
        /\ opt_steps = iteration
        /\ visited = UpTo(iteration)
    /\ visited # <<>> => cur_iter = visited[Len(visited)]
\* A finished run whose last iterations did not lower the loss.
C1_Witness ==
    /\ pc = "done" /\ iteration >= 2 /\ opt_steps = iteration
    /\ best_iter < iteration - 1

\* C2: best_loss starts at +infinity and never increases; an iteration
\* overwrites best_img if and only if its total loss is strictly lower than
\* the best_loss before it, and otherwise leaves best_loss and best_img as
\* they were.
C2_BestOnlyOnStrictlyLower ==
    [][ /\ (pc # "loop" /\ pc' = "loop") => (best_loss' = Inf /\ best_img' = None)
        /\ (pc = "loop" /\ opt_steps' # opt_steps) =>
            /\ ~StrictlyLower(best_loss, best_loss')
            /\ (best_iter' = i) <=> StrictlyLower(loss', best_loss)
            /\ StrictlyLower(loss', best_loss) => best_loss' = loss'
            /\ ~StrictlyLower(loss', best_loss) =>
                   (best_loss' = best_loss /\ best_img' = best_img
                    /\ best_iter' = best_iter)
      ]_vars
\* An iteration whose loss equalled best_loss has left the best result alone.
C2_Witness ==
    /\ pc = "loop" /\ i >= 2
    /\ loss = best_loss
    /\ best_iter < i - 1

\* C3: after every iteration each element of the candidate lies between
\* the float32 values of -mean_c and 255 - mean_c of its channel, whatever
\* the update was, so every candidate handed to _deprocess_img is in range.
C3_CandidateClipped ==
    /\ \A k \in 1..Len(hist) : InRange(hist[k])
    /\ InLoop => init_image = hist[Len(hist)] /\ InRange(init_image)
\* An update pushed channels past both ends and the clip brought them back.
C3_Witness ==
    /\ pc = "loop" /\ opt_steps > 0
    /\ init_image.data[1][1] = min_vals[1]
    /\ init_image.data[1][2] = max_vals[2]

C5_SameLayerCompared ==
    InLoop =>
        LET outs == Model(vgg, init_image)
            sp == StylePairs(vgg, init_image, gram_style_features)
            cp == ContentPairs(vgg, init_image, content_features)
        IN  /\ Len(outs) = num_style_layers + num_content_layers
            /\ \A k \in 1..num_style_layers : outs[k].layer = style_layers[k]
            /\ \A k \in 1..num_content_layers :
                   outs[num_style_layers + k].layer = content_layers[k]
            /\ Len(sp) = num_style_layers
            /\ \A k \in 1..Len(sp) :
                   sp[k][1].layer = style_layers[k] /\ sp[k][2].layer = style_layers[k]
            /\ Len(cp) = num_content_layers
            /\ \A k \in 1..Len(cp) :
                   cp[k][1].layer = content_layers[k] /\ cp[k][2].layer = content_layers[k]
\* A loss has been computed from the pairs.
C5_Witness == pc = "loop" /\ opt_steps >= 1 /\ loss # Inf

\* C6: when the content or the style image cannot be loaded the run raises
\* before any optimization: no optimizer step, no loop iteration, no second
\* attempt at the failed load, nothing returned.
C6_LoadFailureBeforeLoop ==
    (content_file = None \/ style_file = None) =>
        /\ ~InLoop
        /\ opt_steps = 0 /\ visited = <<>>
        /\ init_image = None /\ best_img = None /\ ret = None
        /\ content_file = None => pc \in {"start", "load_content", "raised"}
        /\ pc = "raised" =>
            /\ err = "LoadError"
            /\ opened = IF content_file = None THEN <<"content">>
                        ELSE <<"content", "style">>
\* The content image loaded, the style image did not, and the run raised.
C6_Witness ==
    pc = "raised" /\ content_file # None /\ style_file = None

\* C7: _deprocess_img of an array of rank 2 or rank 5 raises its shape
\* error (the AssertionError, or the ValueError when asserts are stripped).
C7_RankTwoOrFiveRaises ==
    (hpc = "deprocessed" /\ Rank(t_arg) \in {2, 5}) =>
        t_ret.kind \in {"AssertionError", "ValueError"}
\* A rank 5 array was refused.
C7_Witness ==
    hpc = "deprocessed" /\ Rank(t_arg) = 5 /\ t_ret.kind = "AssertionError"

\* C8: with iteration = 0 and loadable images the run raises nothing and
\* returns None.
C8_ZeroIterationsReturnsNone ==
    (iteration = 0 /\ content_file # None /\ style_file # None /\ pc # "idle") =>
        /\ pc # "raised" /\ err = ""
        /\ opt_steps = 0
        /\ best_img = None
        /\ pc = "done" => ret = None
\* A run of zero iterations has returned.
C8_Witness == pc = "done" /\ iteration = 0 /\ ret = None

\* C9: for every pixel array with values 0..255, preprocessing and then
\* _deprocess_img gives back the same uint8 array, and _deprocess_img leaves
\* the array it was given unchanged.
C9_RoundTrip ==
    (hpc = "deprocessed" /\ raw # None) =>
        /\ t_ret = raw
        /\ t_arg = ProcessImg(raw)
\* A round trip through a value whose float32 difference is rounded.
C9_Witness ==
    /\ hpc = "deprocessed" /\ raw # None
    /\ raw.data[1][1] = 255
    /\ t_ret = raw

\* C10: when an iteration lowers best_loss, best_loss is the loss of the
\* candidate as it was before that iteration's update and best_img is the
\* postprocessed candidate after the update and clip; the loss last
\* evaluated is always that of the candidate before the last update, and
\* the run returns best_img.
C10_BestImageOneUpdateLater ==
    /\ best_iter >= 0 =>
        /\ best_loss = LossOf(hist[best_iter + 1])
        /\ best_img = DeprocessImg(hist[best_iter + 2], debug).ret
    /\ (InLoop /\ opt_steps > 0) =>
        /\ Len(hist) = opt_steps + 1
        /\ loss = LossOf(hist[opt_steps])
    /\ pc = "done" => ret = best_img
\* The returned image has another loss than best_loss, and is not the
\* postprocessing of the candidate best_loss was measured on.
C10_Witness ==
    /\ pc = "done" /\ best_iter >= 0
    /\ LossOf(hist[best_iter + 2]) # best_loss
    /\ ret # DeprocessImg(hist[best_iter + 1], debug).ret

=============================================================================
